---- MODULE Spec2Model ----
(***************************************************************************)
(* Navigation interaction state machine of component-factory.              *)
(*                                                                         *)
(* Three controllers are modelled: DesktopNavigation.tsx, MobileNavigation  *)
(* (the mobile drawer) and NavigationContainer.tsx, which has both a       *)
(* desktop and a drawer half.  A behaviour is the life of one controller   *)
(* instance (variable component says which one).                           *)
(*                                                                         *)
(* React semantics kept by the model:                                      *)
(*  - a handler reads the state of the render it was created in (record    *)
(*    r) and queues updates (record s); handlers dispatched for one native *)
(*    event share r;                                                       *)
(*  - a setTimeout callback keeps the values it closed over when armed;    *)
(*  - timers of equal or smaller delay armed earlier expire first, and a   *)
(*    setTimeout(f, 0) expires before the user's next input event.         *)
(* AnimatePresence (framer-motion): a desktop panel is taken to be in the   *)
(* document exactly while activeDropdown is its key (its exit animation is *)
(* not modelled); the drawer stays in the document, rendered from the      *)
(* props of its last open render, until its exit animation is over.        *)
(***************************************************************************)
EXTENDS Integers, Sequences, FiniteSets, TLC

VARIABLES
    component,            \* which controller this instance is
    mounted,              \* the controller is mounted
    showDropdowns,        \* NavigationContainer prop
    isMobile,             \* NavigationContainer media query state
    activeDropdown,       \* useState<string>("")
    isHoveringNavItem,    \* useState(false)  (isHoveringNav in NavigationContainer)
    isHoveringDropdown,   \* useState(false)
    mouseLeaveTimeoutRef, \* useRef: id of the last close timer armed, 0 = null
    timers,               \* pending setTimeout callbacks, in arming order
    activeElement,        \* document.activeElement
    pointer,              \* where the mouse pointer is
    navigated,            \* urls handed to onNavigate by the last step
    mobileMenuOpen,       \* useState(false): the drawer is open
    activeSubmenu,        \* useState(""): label of the drawer's open category
    submenuItems,         \* useState([]): items of that category
    lastEvent,            \* the last step taken (observation only)
    props,                \* the props (hook options) this instance was given
    returned,             \* what the last call of a function or render returned
    currentStep,          \* useStepNavigation: useState(initialStep)
    stepHistory,          \* useStepNavigation: useState([initialStep])
    onStepChange,         \* the steps onStepChange was called with in the last step
    calls,                \* the calls the last event handler made on the hook
    stepBefore,           \* currentStep and stepHistory before that handler ran
    loading,              \* useApiData: useState(true)
    error,                \* useApiData: useState(null), 0 for null, else the
                          \* number of the fetch whose failure it reports
    data,                 \* useApiData: useState(null), 0 for null, else the
                          \* number of the fetch whose result it holds
    retryCount,           \* useApiData: useState(0)
    fetches               \* the calls of fetchVehicleData still awaited

\* the state of the navigation controllers
navVars == << showDropdowns, isMobile, activeDropdown, isHoveringNavItem,
              isHoveringDropdown, mouseLeaveTimeoutRef, timers, activeElement,
              pointer, navigated, mobileMenuOpen >>

\* what no step of a navigation controller changes
stepVars == << currentStep, stepHistory, onStepChange, calls, stepBefore >>

apiVars == << loading, error, data, retryCount, fetches >>

hookVars == << props, returned, stepVars, apiVars >>

vars == << component, mounted, showDropdowns, isMobile, activeDropdown,
           isHoveringNavItem, isHoveringDropdown, mouseLeaveTimeoutRef,
           timers, activeElement, pointer, navigated, mobileMenuOpen,
           activeSubmenu, submenuItems, lastEvent, props, returned, currentStep,
           stepHistory, onStepChange, calls, stepBefore, loading, error, data,
           retryCount, fetches >>

-----------------------------------------------------------------------------
(* Bounds *)

\* pending timers kept at once; a step that would exceed it is not taken
MaxTimers == 2
\* focusable menu items rendered inside an open panel
PanelSize == 2

-----------------------------------------------------------------------------
(* Configuration: the data handed to the controller *)

NoUrl == "undefined"

desktopMenuItems ==
    << [id |-> "nav-motorbikes", label |-> "Motorbikes", hasDropdown |-> TRUE,  url |-> "#"],
       [id |-> "nav-scooter",    label |-> "Scooter",    hasDropdown |-> TRUE,  url |-> "#"],
       [id |-> "nav-contact",    label |-> "Contact",    hasDropdown |-> FALSE, url |-> "#contact"],
       [id |-> "nav-fleet",      label |-> "Fleet",      hasDropdown |-> FALSE, url |-> "#"],
       [id |-> "nav-dealers",    label |-> "Dealers",    hasDropdown |-> FALSE, url |-> NoUrl] >>

Items == DOMAIN desktopMenuItems

\* String.prototype.toLowerCase on the strings the controller handles
toLowerCase(str) ==
    CASE str = "Motorbikes" -> "motorbikes"
      [] str = "Scooter"    -> "scooter"
      [] str = "Contact"    -> "contact"
      [] str = "Fleet"      -> "fleet"
      [] str = "Dealers"    -> "dealers"
      [] str = "Scooters"   -> "scooters"
      [] str = "More"       -> "more"
      [] OTHER              -> str

\* keys of the panels each controller can render
DN_dropdowns == {"motorbikes", "scooter", "more"}
NC_dropdowns == {"motorbikes", "scooters", "more"}

\* the panels in the document while their key is active
dropdowns ==
    IF component = "DesktopNavigation" THEN DN_dropdowns
    ELSE IF ~isMobile /\ showDropdowns THEN NC_dropdowns
    ELSE {}

\* urls of the items inside a panel (item 1: a real link, item 2: placeholder)
PanelItemUrl(j) == IF j = 1 THEN "#km5000" ELSE "#"

PanelItemLabel(j) ==
    CASE j = 1 -> "KM5000" [] j = 2 -> "Test Rides" [] OTHER -> "Book Now"

\* group of an item that has none (LinkItem.group?: number)
NoGroup == -1

\* the datasets handed in when the caller draws none of its own
DefaultMotorbikes ==
    [j \in 1..PanelSize |->
        [label |-> PanelItemLabel(j), url |-> PanelItemUrl(j),
         type |-> IF j = 1 THEN "model" ELSE "link", group |-> NoGroup]]
DefaultScooters ==
    << [label |-> "KS3000", url |-> "#ks3000", type |-> "model", group |-> NoGroup],
       [label |-> "Locate a Store", url |-> NoUrl, type |-> "link", group |-> NoGroup] >>
DefaultMore ==
    << [label |-> "About Us", url |-> "#about", type |-> "link", group |-> 0] >>

DefaultProps ==
    [motorbikesDropdownItems |-> DefaultMotorbikes,
     scootersDropdownItems |-> DefaultScooters,
     moreDropdownItems |-> DefaultMore,
     totalSteps |-> 1, initialStep |-> 1, onStepChange |-> FALSE]

\* the data the drawer's categories are mapped from
motorbikesDropdownItems == props.motorbikesDropdownItems
scootersDropdownItems == props.scootersDropdownItems
moreDropdownItems == props.moreDropdownItems

\* the root list of the drawer
mobileMenuItems ==
    << [label |-> "Motorbikes", hasChildren |-> TRUE,  icon |-> "right",
        variant |-> "mobile", url |-> "#",      back |-> FALSE],
       [label |-> "Scooters",   hasChildren |-> TRUE,  icon |-> "right",
        variant |-> "mobile", url |-> "#",      back |-> FALSE],
       [label |-> "More",       hasChildren |-> TRUE,  icon |-> "more",
        variant |-> "mobile", url |-> "#",      back |-> FALSE],
       [label |-> "Fleet",      hasChildren |-> FALSE, icon |-> "right",
        variant |-> "mobile", url |-> "#fleet", back |-> FALSE] >>

\* the argument of the drawer's Back button: onItemClick({ back: true })
BackItem ==
    [label |-> "", hasChildren |-> FALSE, icon |-> "", variant |-> "",
     url |-> NoUrl, back |-> TRUE]

MobileChildren_TypeBlind(sourceItems) ==
    [j \in DOMAIN sourceItems |->
        [label |-> sourceItems[j].label, hasChildren |-> FALSE,
         icon |-> "right", variant |-> "mobileChild",
         url |-> sourceItems[j].url, back |-> FALSE]]

\* sourceItems.map(item => ({ label, hasChildren: false, icon, variant, url }))
MobileChildren(sourceItems) ==
    [j \in DOMAIN sourceItems |->
        [label |-> sourceItems[j].label, hasChildren |-> FALSE,
         icon |-> IF sourceItems[j].type = "model" THEN "right" ELSE "topRight",
         variant |-> IF sourceItems[j].type = "model"
                     THEN "mobileChild" ELSE "mobileSubItem",
         url |-> sourceItems[j].url, back |-> FALSE]]

\* moreDropdownItems.map(item => ({ label, hasChildren: false,
\*                                  icon: "topRight", variant: "mobileChild", url }))
MoreChildren(sourceItems) ==
    [j \in DOMAIN sourceItems |->
        [label |-> sourceItems[j].label, hasChildren |-> FALSE,
         icon |-> "topRight", variant |-> "mobileChild",
         url |-> sourceItems[j].url, back |-> FALSE]]

getSubmenuItemsForCategory_DesktopKeys(categoryLabel) ==
    LET categoryLower == toLowerCase(categoryLabel)
    IN IF categoryLower = "motorbikes" THEN MobileChildren(motorbikesDropdownItems)
       ELSE IF categoryLower = "scooter" THEN MobileChildren(scootersDropdownItems)
       ELSE IF categoryLower = "more" THEN MoreChildren(moreDropdownItems)
       ELSE << >>

getSubmenuItemsForCategory(categoryLabel) ==
    LET categoryLower == toLowerCase(categoryLabel)
    IN IF categoryLower = "motorbikes" THEN MobileChildren(motorbikesDropdownItems)
       ELSE IF categoryLower = "scooters" THEN MobileChildren(scootersDropdownItems)
       ELSE IF categoryLower = "more" THEN MoreChildren(moreDropdownItems)
       ELSE << >>

-----------------------------------------------------------------------------
(* Elements, pointer regions, timers *)

Body        == [k |-> "body",  i |-> 0]
ItemEl(i)   == [k |-> "item",  i |-> i]
PanelEl(j)  == [k |-> "panel", i |-> j]
NoElement   == [k |-> "none",  i |-> 0]

Outside     == [k |-> "outside", i |-> 0]
Bar         == [k |-> "bar",     i |-> 0]
OnItem(i)   == [k |-> "item",    i |-> i]
OnPanel     == [k |-> "panel",   i |-> 0]

Regions == {Outside, Bar, OnPanel} \cup {OnItem(i) : i \in Items}

Timer(id, kind, delay, nav, dd, target, url, label) ==
    [id |-> id, kind |-> kind, delay |-> delay, nav |-> nav, dd |-> dd,
     target |-> target, url |-> url, label |-> label]

\* the callback of startCloseTimer, closing over the render's hover flags
CloseTimer(id, delay, nav, dd) == Timer(id, "close", delay, nav, dd, NoElement, "", "")
\* () => element?.focus()
FocusTimer(delay, target) == Timer(0, "focus", delay, FALSE, FALSE, target, "", "")
FocusFirstTimer_NoPanel(label) ==
    Timer(0, "focusFirst", 50, FALSE, FALSE, NoElement, "", "")

\* () => focusFirstItem(document.getElementById(getDropdownId(label)))
FocusFirstTimer(label) == Timer(0, "focusFirst", 50, FALSE, FALSE, NoElement, "", label)
\* DesktopDropdown's effect: () => focusFirstItem(dropdownRef.current)
MountFocusTimer(key) == Timer(0, "mountFocus", 50, FALSE, FALSE, NoElement, "", key)
\* handleDropdownItemClick's delayed navigation
NavigateTimer(url, label) == Timer(0, "navigate", 600, FALSE, FALSE, NoElement, url, label)
\* MobileNavigation.handleMenuToggle's delayed reset of the drawer
MobileResetTimer == Timer(0, "mobileReset", 300, FALSE, FALSE, NoElement, "", "")

\* The exit animation of the drawer (350 ms delay, 300 ms slide), after which
\* AnimatePresence takes the drawer out of the document.  Until then the
\* drawer stays rendered from the props of its last open render; submenu is
\* the activeSubmenu prop of that render.
DrawerExitTimer(submenu) ==
    Timer(0, "drawerExit", 650, FALSE, FALSE, NoElement, "", submenu)

\* the callbacks armed by setTimeout, as opposed to the running exit animation
SetTimeouts(ts) == LET armed(t) == t.kind # "drawerExit" IN SelectSeq(ts, armed)

\* AnimatePresence around {isOpen && drawer}: a render that closes the drawer
\* starts its exit, a render that opens it ends a running exit
Presence(wasOpen, submenu, s) ==
    IF wasOpen /\ ~s.menuOpen
    THEN [s EXCEPT !.timers = Append(s.timers, DrawerExitTimer(submenu))]
    ELSE IF s.menuOpen
    THEN [s EXCEPT !.timers = SetTimeouts(s.timers)]
    ELSE s
\* MobileNavigation.handleMobileItemClick's delayed reset and navigation
MobileLeafTimer_NoUrl(url) ==
    Timer(0, "mobileLeaf", 300, FALSE, FALSE, NoElement, "", "")

MobileLeafTimer(url) == Timer(0, "mobileLeaf", 300, FALSE, FALSE, NoElement, url, "")

\* clearTimeout(id): no effect when id names no pending timer
clearTimeout(ts, id) ==
    LET keep(t) == ~(t.id = id /\ id # 0) IN SelectSeq(ts, keep)

\* setTimeout hands out an id no pending timer has; ids are never reused
\* while a reference to them is still held
setTimeoutId(ts, held) ==
    CHOOSE n \in 1..(Len(ts) + 2) :
        /\ n # held
        /\ \A j \in DOMAIN ts : ts[j].id # n
        /\ \A m \in 1..(n - 1) : m = held \/ \E j \in DOMAIN ts : ts[j].id = m

RemoveAt(ts, i) == [j \in 1..(Len(ts) - 1) |-> IF j < i THEN ts[j] ELSE ts[j + 1]]

\* the state a handler reads (r) and the updates it queues (s)
Cur ==
    [active |-> activeDropdown, nav |-> isHoveringNavItem, dd |-> isHoveringDropdown,
     ref |-> mouseLeaveTimeoutRef, timers |-> timers, focus |-> activeElement,
     navd |-> << >>,
     menuOpen |-> mobileMenuOpen, submenu |-> activeSubmenu, subItems |-> submenuItems]

\* desktopMenuItems.find(item => item.label.toLowerCase() === label.toLowerCase()),
\* 0 when nothing matches
FindByLabel(label) ==
    LET hits == {i \in Items : toLowerCase(desktopMenuItems[i].label) = toLowerCase(label)}
    IN IF hits = {} THEN 0 ELSE CHOOSE i \in hits : \A j \in hits : i <= j

-----------------------------------------------------------------------------
(* DesktopNavigation.tsx: handlers *)

DN_startCloseTimer_NoClear(r, s) ==
    LET id == setTimeoutId(s.timers, s.ref)
    IN [s EXCEPT !.timers = Append(s.timers, CloseTimer(id, 250, r.nav, r.dd)),
                 !.ref = id]

DN_startCloseTimer(r, s) ==
    LET cleared == clearTimeout(s.timers, s.ref)
        id == setTimeoutId(cleared, s.ref)
    IN [s EXCEPT !.timers = Append(cleared, CloseTimer(id, 250, r.nav, r.dd)),
                 !.ref = id]

DN_clearCloseTimer(s) == [s EXCEPT !.timers = clearTimeout(s.timers, s.ref)]

DN_handleItemHover_NoClear(r, s, i) ==
    LET item == desktopMenuItems[i]
    IN [s EXCEPT !.nav = TRUE,
                 !.active = IF item.hasDropdown THEN toLowerCase(item.label) ELSE ""]

DN_handleItemHover(r, s, i) ==
    LET item == desktopMenuItems[i]
        s1 == DN_clearCloseTimer([s EXCEPT !.nav = TRUE])
    IN [s1 EXCEPT !.active = IF item.hasDropdown THEN toLowerCase(item.label) ELSE ""]

DN_handleItemLeave(r, s) == DN_startCloseTimer(r, [s EXCEPT !.nav = FALSE])

DN_handleItemFocus_NoClear(s) == [s EXCEPT !.nav = TRUE]

DN_handleItemFocus(s) == DN_clearCloseTimer([s EXCEPT !.nav = TRUE])

DN_handleItemBlur(r, s) == DN_startCloseTimer(r, [s EXCEPT !.nav = FALSE])

DN_handleDropdownEnter_NoClear(s) == [s EXCEPT !.dd = TRUE]

DN_handleDropdownEnter(s) == DN_clearCloseTimer([s EXCEPT !.dd = TRUE])

DN_handleDropdownLeave(r, s) == DN_startCloseTimer(r, [s EXCEPT !.dd = FALSE])

DN_closeDropdown_NoFocus(r, s, label) ==
    IF r.active = "" THEN s ELSE [s EXCEPT !.active = ""]

DN_closeDropdown_IgnoreLabel(r, s, label) ==
    IF r.active = "" THEN s
    ELSE LET trigger == FindByLabel(r.active)
             s1 == [s EXCEPT !.active = ""]
         IN IF trigger # 0
            THEN [s1 EXCEPT !.timers = Append(s1.timers, FocusTimer(50, ItemEl(trigger)))]
            ELSE s1

\* closeDropdown(returnFocusToLabel?); label "" stands for an omitted argument
DN_closeDropdown(r, s, label) ==
    IF r.active = "" THEN s
    ELSE LET focusLabel == IF label # "" THEN label ELSE r.active
             trigger == FindByLabel(focusLabel)
             s1 == [s EXCEPT !.active = ""]
         IN IF trigger # 0
            THEN [s1 EXCEPT !.timers = Append(s1.timers, FocusTimer(50, ItemEl(trigger)))]
            ELSE s1

DN_handleDesktopItemClick_OpenOnly(r, s, i) ==
    LET item == desktopMenuItems[i]
    IN IF ~item.hasDropdown
       THEN LET s1 == DN_closeDropdown(r, s, "")
            IN IF item.url # NoUrl /\ item.url # "#"
               THEN [s1 EXCEPT !.navd = Append(s1.navd, item.url)]
               ELSE s1
       ELSE DN_clearCloseTimer([s EXCEPT !.active = toLowerCase(item.label)])

DN_handleDesktopItemClick(r, s, i) ==
    LET item == desktopMenuItems[i]
        lowerLabel == toLowerCase(item.label)
    IN IF ~item.hasDropdown
       THEN LET s1 == DN_closeDropdown(r, s, "")
            IN IF item.url # NoUrl /\ item.url # "#"
               THEN [s1 EXCEPT !.navd = Append(s1.navd, item.url)]
               ELSE s1
       ELSE DN_clearCloseTimer(
                [s EXCEPT !.active = IF s.active = lowerLabel THEN "" ELSE lowerLabel])

-----------------------------------------------------------------------------
(* NavigationContainer.tsx: desktop handlers *)

NC_startCloseTimer_NoClear(r, s) ==
    LET id == setTimeoutId(s.timers, s.ref)
    IN [s EXCEPT !.timers = Append(s.timers, CloseTimer(id, 200, r.nav, r.dd)),
                 !.ref = id]

NC_startCloseTimer(r, s) ==
    LET cleared == IF s.ref # 0 THEN clearTimeout(s.timers, s.ref) ELSE s.timers
        id == setTimeoutId(cleared, s.ref)
    IN [s EXCEPT !.timers = Append(cleared, CloseTimer(id, 200, r.nav, r.dd)),
                 !.ref = id]

NC_clearCloseTimer(s) ==
    [s EXCEPT !.timers = IF s.ref # 0 THEN clearTimeout(s.timers, s.ref) ELSE s.timers,
              !.ref = 0]

\* desktopMenuItems.find(item => item.label === itemLabel), 0 when none
FindExact(itemLabel) ==
    LET hits == {i \in Items : desktopMenuItems[i].label = itemLabel}
    IN IF hits = {} THEN 0 ELSE CHOOSE i \in hits : \A j \in hits : i <= j

NC_handleItemHover(r, s, itemLabel) ==
    IF isMobile \/ ~showDropdowns THEN s
    ELSE LET s1 == NC_clearCloseTimer([s EXCEPT !.nav = TRUE])
             itemConfig == FindExact(itemLabel)
         IN [s1 EXCEPT !.active =
                IF itemConfig # 0 /\ desktopMenuItems[itemConfig].hasDropdown
                THEN toLowerCase(itemLabel) ELSE ""]

NC_handleNavLeave(r, s) ==
    IF ~isMobile THEN NC_startCloseTimer(r, [s EXCEPT !.nav = FALSE]) ELSE s

NC_handleDropdownEnter(s) ==
    IF ~isMobile THEN NC_clearCloseTimer([s EXCEPT !.dd = TRUE]) ELSE s

NC_handleDropdownLeave(r, s) ==
    IF ~isMobile THEN NC_startCloseTimer(r, [s EXCEPT !.dd = FALSE]) ELSE s

NC_handleDesktopItemClick(r, s, i) ==
    LET item == desktopMenuItems[i]
        lowerLabel == toLowerCase(item.label)
    IN IF isMobile THEN s
       ELSE IF ~item.hasDropdown \/ ~showDropdowns
       THEN LET s1 == [s EXCEPT !.active = ""]
            IN IF item.url # NoUrl /\ item.url # ""
               THEN [s1 EXCEPT !.navd = Append(s1.navd, item.url)]
               ELSE s1
       ELSE NC_clearCloseTimer(
                [s EXCEPT !.active = IF s.active = lowerLabel THEN "" ELSE lowerLabel])

NC_handleDropdownItemClick(r, s, url) ==
    LET s1 == [s EXCEPT !.active = ""]
    IN IF url # NoUrl /\ url # "" THEN [s1 EXCEPT !.navd = Append(s1.navd, url)] ELSE s1

-----------------------------------------------------------------------------
(* Focus changes and rendering *)

\* element.focus(), or the user moving focus: the item losing focus gets its
\* onBlur, the item gaining it its onFocus, each as an event of its own
SetFocus(s, target) ==
    IF target = s.focus \/ target = NoElement THEN s
    ELSE LET handled == component = "DesktopNavigation"
             s1 == IF handled /\ s.focus.k = "item" THEN DN_handleItemBlur(s, s) ELSE s
             s2 == [s1 EXCEPT !.focus = target]
         IN IF handled /\ target.k = "item" THEN DN_handleItemFocus(s2) ELSE s2

focusFirstItem_Noop(s, panelThere) == s

\* focusFirstItem(panel element): the first menuitem inside, if any
focusFirstItem(s, panelThere) ==
    IF panelThere /\ PanelSize >= 1 THEN SetFocus(s, PanelEl(1)) ELSE s

\* The render after a step that began with activeDropdown = before: the panel
\* of a key that is no longer active leaves the document (DesktopDropdown's
\* effect cleanup clears its focus timer, focus inside it falls back to the
\* body), the panel of a newly active key mounts and its effect arms the
\* focus timer.
Rendered(before, keys, s) ==
    IF s.active = before THEN s
    ELSE LET gone == before \in keys
             came == s.active \in keys
             keep(t) == t.kind # "mountFocus"
             detach(t) == IF t.kind = "focus" /\ t.target.k = "panel"
                          THEN [t EXCEPT !.target = NoElement] ELSE t
             t0 == SelectSeq(s.timers, keep)
             t1 == IF gone THEN [j \in DOMAIN t0 |-> detach(t0[j])] ELSE s.timers
             t2 == IF came THEN Append(t1, MountFocusTimer(s.active)) ELSE t1
         IN [s EXCEPT !.timers = t2,
                      !.focus = IF gone /\ s.focus.k = "panel" THEN Body ELSE s.focus]

-----------------------------------------------------------------------------
(* DesktopNavigation.tsx: keyboard and panel handlers *)

Schedule(s, t) == [s EXCEPT !.timers = Append(s.timers, t)]

PrevIndex_NoWrap(i) == IF i = 1 THEN 1 ELSE i - 1

\* itemRefs.current[index], indices counted from 1 here
PrevIndex(i) == (((i - 1) - 1 + Len(desktopMenuItems)) % Len(desktopMenuItems)) + 1
NextIndex(i) == (((i - 1) + 1) % Len(desktopMenuItems)) + 1

\* handleItemKeyDown(item, event) with event.currentTarget the element of item i
DN_handleItemKeyDown(r, s, i, key) ==
    LET item == desktopMenuItems[i]
        lowerLabel == toLowerCase(item.label)
    IN CASE key \in {"Enter", " "} ->
              IF item.hasDropdown
              THEN LET newState == IF r.active = lowerLabel THEN "" ELSE lowerLabel
                       s1 == DN_clearCloseTimer([s EXCEPT !.active = newState])
                   IN IF newState # ""
                      THEN Schedule(s1, FocusFirstTimer(item.label))
                      ELSE Schedule(s1, FocusTimer(0, ItemEl(i)))
              ELSE IF item.url # NoUrl /\ item.url # "#"
                   THEN [s EXCEPT !.navd = Append(s.navd, item.url)]
                   ELSE s
         [] key = "ArrowDown" ->
              IF item.hasDropdown
              THEN IF r.active # lowerLabel
                   THEN Schedule(DN_clearCloseTimer([s EXCEPT !.active = lowerLabel]),
                                 FocusFirstTimer(item.label))
                   ELSE focusFirstItem(s, lowerLabel \in DN_dropdowns)
              ELSE s
         [] key = "ArrowLeft"  -> Schedule(s, FocusTimer(0, ItemEl(PrevIndex(i))))
         [] key = "ArrowRight" -> Schedule(s, FocusTimer(0, ItemEl(NextIndex(i))))
         [] key = "Escape" ->
              IF r.active # ""
              THEN Schedule(DN_closeDropdown(r, s, item.label), FocusTimer(0, ItemEl(i)))
              ELSE s
         [] key = "Tab" ->
              IF r.active # "" THEN DN_closeDropdown(r, s, "") ELSE s
         [] OTHER -> s

DN_panelKeyDown_NoWrap(r, s, n, cur, key) ==
    IF r.active = "" \/ n = 0 THEN s
    ELSE CASE key = "ArrowDown" ->
                   Schedule(s, FocusTimer(0, PanelEl(IF cur = n THEN n ELSE cur + 1)))
           [] key = "ArrowUp" ->
                   Schedule(s, FocusTimer(0, PanelEl(IF cur = 1 THEN 1 ELSE cur - 1)))
           [] key = "Home" -> Schedule(s, FocusTimer(0, PanelEl(1)))
           [] key = "End"  -> Schedule(s, FocusTimer(0, PanelEl(n)))
           [] key \in {"Tab", "Escape"} -> DN_closeDropdown(r, s, r.active)
           [] OTHER -> s

\* the body of handleDropdownKeyDown for a panel with n focusable items
\* (focusableElements.length) and document.activeElement the item cur
DN_panelKeyDown(r, s, n, cur, key) ==
    IF r.active = "" \/ n = 0 THEN s
    ELSE LET currentIndex == cur - 1
             move == IF key = "ArrowDown" THEN 1 ELSE -1
             nextIndex == (currentIndex + move + n) % n
         IN CASE key \in {"ArrowDown", "ArrowUp"} ->
                   Schedule(s, FocusTimer(0, PanelEl(nextIndex + 1)))
              [] key = "Home" -> Schedule(s, FocusTimer(0, PanelEl(1)))
              [] key = "End"  -> Schedule(s, FocusTimer(0, PanelEl(n)))
              [] key \in {"Tab", "Escape"} -> DN_closeDropdown(r, s, r.active)
              [] OTHER -> s

\* handleDropdownKeyDown(event) with document.activeElement the panel item cur
DN_handleDropdownKeyDown(r, s, cur, key) == DN_panelKeyDown(r, s, PanelSize, cur, key)

\* handleDropdownItemClick(item) for the panel item with this url
DN_handleDropdownItemClick_AnyUrl(r, s, url) ==
    Schedule([s EXCEPT !.active = ""], NavigateTimer(url, r.active))

DN_handleDropdownItemClick(r, s, url) ==
    LET s1 == [s EXCEPT !.active = ""]
    IN IF url # NoUrl /\ url # "#"
       THEN Schedule(s1, NavigateTimer(url, r.active))
       ELSE Schedule(s1, NavigateTimer("", r.active))

DN_handleClickOutside_IgnoreTarget(r, s, contains) ==
    IF r.active # "" THEN [s EXCEPT !.active = ""] ELSE s

\* handleClickOutside(event); contains: navRef.current.contains(event.target)
DN_handleClickOutside(r, s, contains) ==
    IF r.active # "" /\ ~contains THEN [s EXCEPT !.active = ""] ELSE s

Event(kind, a, b, item) ==
    [kind |-> kind, a |-> a, b |-> b, before |-> activeDropdown]

\* The id of a timer that has expired or was cleared is kept as 0: clearTimeout
\* ignores it just as it ignores null
LiveRef(ref, ts) == IF \E j \in DOMAIN ts : ts[j].id = ref THEN ref ELSE 0

\* no zero-delay timer is waiting: the next input event can be dispatched
InputReady == mounted /\ \A j \in DOMAIN timers : timers[j].delay > 0

\* commit the updates of a step
Commit(s, p, ev) ==
    LET f == Presence(mobileMenuOpen, activeSubmenu,
                      Rendered(activeDropdown, dropdowns, s))
    IN /\ Len(SetTimeouts(f.timers)) <= MaxTimers
       /\ activeDropdown' = f.active
       /\ isHoveringNavItem' = f.nav
       /\ isHoveringDropdown' = f.dd
       /\ mouseLeaveTimeoutRef' = LiveRef(f.ref, f.timers)
       /\ timers' = f.timers
       /\ activeElement' = f.focus
       /\ navigated' = f.navd
       /\ mobileMenuOpen' = f.menuOpen
       /\ activeSubmenu' = f.submenu
       /\ submenuItems' = f.subItems
       /\ pointer' = IF p.k = "panel" /\ f.active # activeDropdown THEN Outside ELSE p
       /\ lastEvent' = ev
       /\ UNCHANGED << component, mounted, showDropdowns, isMobile >>
       /\ UNCHANGED hookVars

-----------------------------------------------------------------------------
(* DesktopNavigation.tsx: events *)

\* The handlers React dispatches, in one batch, when the pointer goes from
\* region p to region q: onMouseLeave from the element left up to the common
\* ancestor (the container div carries handleItemLeave), then onMouseEnter.
DN_PointerHandlers(r, s, p, q) ==
    LET s1 == IF p.k = "item" THEN DN_handleItemLeave(r, s)
              ELSE IF p.k = "panel" THEN DN_handleDropdownLeave(r, s)
              ELSE s
        s2 == IF q.k = "outside" /\ p.k # "outside" THEN DN_handleItemLeave(r, s1) ELSE s1
    IN IF q.k = "item" THEN DN_handleItemHover(r, s2, q.i)
       ELSE IF q.k = "panel" THEN DN_handleDropdownEnter(s2)
       ELSE s2

DN_MovePointer(q) ==
    /\ component = "DesktopNavigation" /\ InputReady
    /\ q # pointer
    /\ q.k = "panel" => activeDropdown \in dropdowns
    /\ Commit(DN_PointerHandlers(Cur, Cur, pointer, q), q,
              Event("pointer", pointer.k, q.k, q.i))

\* a mouse click on a top-level item; the browser may first move focus to it
DN_ClickItem(i, focuses) ==
    /\ component = "DesktopNavigation" /\ InputReady
    /\ pointer = OnItem(i)
    /\ LET s0 == IF focuses THEN SetFocus(Cur, ItemEl(i)) ELSE Cur
       IN Commit(DN_handleDesktopItemClick(s0, s0, i), pointer,
                 Event("click", "", "", i))

Keys == {"Enter", " ", "ArrowDown", "ArrowLeft", "ArrowRight", "Escape", "Tab"}
PanelKeys == {"ArrowDown", "ArrowUp", "Home", "End", "Tab", "Escape"}

\* where the browser's own Tab handling sends focus from item i: the next or
\* previous top-level item (panel items are tabIndex -1), or out of the strip
TabTarget(i, back) ==
    IF back THEN (IF i = 1 THEN Body ELSE ItemEl(i - 1))
    ELSE (IF i = Len(desktopMenuItems) THEN Body ELSE ItemEl(i + 1))

\* a key pressed while top-level item i has focus; after the handler the
\* browser does what the handler did not prevent: Enter on a plain link
\* clicks it, Tab moves focus on
DN_KeyOnItem(i, key, back) ==
    /\ component = "DesktopNavigation" /\ InputReady
    /\ activeElement = ItemEl(i)
    /\ back => key = "Tab"
    /\ LET s1 == DN_handleItemKeyDown(Cur, Cur, i, key)
           s2 == IF key = "Enter" /\ ~desktopMenuItems[i].hasDropdown
                 THEN DN_handleDesktopItemClick(s1, s1, i)
                 ELSE IF key = "Tab" THEN SetFocus(s1, TabTarget(i, back))
                 ELSE s1
       IN Commit(s2, pointer, Event("key", key, "item", i))

\* a key pressed while item cur of the open panel has focus; Enter and Space
\* are handled by the item itself (createMenuItemProps) as a click
DN_KeyInPanel(cur, key) ==
    /\ component = "DesktopNavigation" /\ InputReady
    /\ activeElement = PanelEl(cur)
    /\ LET s1 == IF key \in {"Enter", " "}
                 THEN DN_handleDropdownItemClick(Cur, Cur, PanelItemUrl(cur))
                 ELSE Cur
       IN Commit(DN_handleDropdownKeyDown(Cur, s1, cur, key), pointer,
                 Event("key", key, "panel", cur))

\* a mouse click on item j of the open panel; the browser may focus it first
DN_ClickPanelItem(j, focuses) ==
    /\ component = "DesktopNavigation" /\ InputReady
    /\ pointer = OnPanel /\ activeDropdown \in dropdowns
    /\ LET s0 == IF focuses THEN SetFocus(Cur, PanelEl(j)) ELSE Cur
       IN Commit(DN_handleDropdownItemClick(s0, s0, PanelItemUrl(j)), pointer,
                 Event("panelClick", "", PanelItemUrl(j), j))

\* a mouse press on the page outside the container: the document listener
\* runs, then whatever had focus loses it
DN_MouseDownOutside ==
    /\ component = "DesktopNavigation" /\ InputReady
    /\ pointer = Outside
    /\ LET s1 == DN_handleClickOutside(Cur, Cur, FALSE)
       IN Commit(SetFocus(s1, Body), pointer, Event("mousedownOutside", "", "", 0))

\* a mouse press inside the container: the document listener runs; a press
\* on the bar between the items takes focus from whatever had it
DN_MouseDownInside ==
    /\ component = "DesktopNavigation" /\ InputReady
    /\ pointer # Outside
    /\ LET s1 == DN_handleClickOutside(Cur, Cur, TRUE)
       IN Commit(IF pointer = Bar THEN SetFocus(s1, Body) ELSE s1, pointer,
                 Event("mousedownInside", "", "", 0))

\* the user tabs into the strip from the page
DN_TabInto(i) ==
    /\ component = "DesktopNavigation" /\ InputReady
    /\ activeElement = Body
    /\ i \in {1, Len(desktopMenuItems)}
    /\ Commit(SetFocus(Cur, ItemEl(i)), pointer, Event("tabInto", "", "", i))

-----------------------------------------------------------------------------
(* NavigationContainer.tsx: desktop events *)

\* NavBar reports item enter and leave, the panels their own; the container
\* div has no mouse handlers
NC_PointerHandlers(r, s, p, q) ==
    LET s1 == IF p.k = "item" THEN NC_handleNavLeave(r, s)
              ELSE IF p.k = "panel" THEN NC_handleDropdownLeave(r, s)
              ELSE s
    IN IF q.k = "item" THEN NC_handleItemHover(r, s1, desktopMenuItems[q.i].label)
       ELSE IF q.k = "panel" THEN NC_handleDropdownEnter(s1)
       ELSE s1

NC_MovePointer(q) ==
    /\ component = "NavigationContainer" /\ InputReady
    /\ q # pointer
    /\ q.k = "panel" => activeDropdown \in dropdowns
    /\ Commit(NC_PointerHandlers(Cur, Cur, pointer, q), q,
              Event("pointer", pointer.k, q.k, q.i))

NC_ClickItem(i) ==
    /\ component = "NavigationContainer" /\ InputReady
    /\ pointer = OnItem(i)
    /\ Commit(NC_handleDesktopItemClick(Cur, Cur, i), pointer, Event("click", "", "", i))

NC_ClickPanelItem(j) ==
    /\ component = "NavigationContainer" /\ InputReady
    /\ pointer = OnPanel /\ activeDropdown \in dropdowns
    /\ Commit(NC_handleDropdownItemClick(Cur, Cur, PanelItemUrl(j)), pointer,
              Event("panelClick", "", PanelItemUrl(j), j))

\* the media query changes; the effect on isMobile closes the desktop
\* dropdown when the layout becomes mobile and closes and resets the drawer
\* when it becomes desktop
NC_Resize ==
    /\ component = "NavigationContainer" /\ InputReady
    /\ isMobile' = ~isMobile
    /\ LET s == IF isMobile' THEN [Cur EXCEPT !.active = ""]
                ELSE [Cur EXCEPT !.menuOpen = FALSE, !.submenu = "", !.subItems = << >>]
           f == Presence(mobileMenuOpen, activeSubmenu,
                         Rendered(activeDropdown, dropdowns, s))
       IN /\ activeDropdown' = f.active
          /\ timers' = f.timers
          /\ activeElement' = f.focus
          /\ mouseLeaveTimeoutRef' = LiveRef(f.ref, f.timers)
          /\ pointer' = IF pointer.k = "panel" THEN Outside ELSE pointer
          /\ mobileMenuOpen' = f.menuOpen
          /\ activeSubmenu' = f.submenu
          /\ submenuItems' = f.subItems
    /\ navigated' = << >>
    /\ lastEvent' = Event("resize", "", "", 0)
    /\ UNCHANGED << component, mounted, showDropdowns, isHoveringNavItem,
                    isHoveringDropdown >>
    /\ UNCHANGED hookVars

-----------------------------------------------------------------------------
(* The mobile drawer: MobileNavigation and NavigationContainer *)

\* const currentMobileNavItems = activeSubmenu ? submenuItems : mobileMenuItems
currentMobileNavItems == IF activeSubmenu # "" THEN submenuItems ELSE mobileMenuItems

\* the longest list the drawer can show
MaxListLen ==
    LET lens == {Len(mobileMenuItems), Len(motorbikesDropdownItems),
                 Len(scootersDropdownItems), Len(moreDropdownItems)}
    IN CHOOSE n \in lens : \A m \in lens : m <= n

MN_handleMenuToggle(r, s) ==
    LET closing == r.menuOpen
        s1 == [s EXCEPT !.menuOpen = ~s.menuOpen]
    IN IF closing THEN Schedule(s1, MobileResetTimer) ELSE s1

MN_handleMobileItemClick_BackCloses(r, s, item) ==
    IF item.back THEN [s EXCEPT !.submenu = "", !.menuOpen = FALSE]
    ELSE IF item.hasChildren
    THEN [s EXCEPT !.submenu = item.label,
                   !.subItems = getSubmenuItemsForCategory(item.label)]
    ELSE Schedule([s EXCEPT !.menuOpen = FALSE], MobileLeafTimer(item.url))

MN_handleMobileItemClick(r, s, item) ==
    IF item.back THEN [s EXCEPT !.submenu = ""]
    ELSE IF item.hasChildren
    THEN [s EXCEPT !.submenu = item.label,
                   !.subItems = getSubmenuItemsForCategory(item.label)]
    ELSE Schedule([s EXCEPT !.menuOpen = FALSE], MobileLeafTimer(item.url))

NC_handleMenuToggle(r, s) ==
    LET s1 == [s EXCEPT !.menuOpen = ~s.menuOpen]
    IN IF r.menuOpen THEN [s1 EXCEPT !.submenu = "", !.subItems = << >>] ELSE s1

NC_handleMobileItemClick(r, s, item) ==
    IF item.back THEN [s EXCEPT !.submenu = "", !.subItems = << >>]
    ELSE IF item.hasChildren
    THEN [s EXCEPT !.submenu = item.label,
                   !.subItems = getSubmenuItemsForCategory(item.label)]
    ELSE LET s1 == [s EXCEPT !.menuOpen = FALSE, !.submenu = "", !.subItems = << >>]
         IN IF item.url # NoUrl /\ item.url # ""
            THEN [s1 EXCEPT !.navd = Append(s1.navd, item.url)]
            ELSE s1

\* the drawer is on its way out: closed, its exit animation still running
DrawerExiting == \E j \in DOMAIN timers : timers[j].kind = "drawerExit"

\* the drawer's buttons are in the document
DrawerInDocument == mobileMenuOpen \/ DrawerExiting

\* the activeSubmenu prop the drawer in the document was rendered with
ShownSubmenu ==
    IF mobileMenuOpen THEN activeSubmenu
    ELSE LET j == CHOOSE j \in DOMAIN timers : timers[j].kind = "drawerExit"
         IN timers[j].label

\* the navItems prop the drawer in the document was rendered with
ShownItems ==
    IF mobileMenuOpen THEN currentMobileNavItems
    ELSE IF ShownSubmenu = "" THEN mobileMenuItems
    ELSE getSubmenuItemsForCategory(ShownSubmenu)

\* the render the handlers of the drawer in the document were created in
DrawerRender ==
    IF mobileMenuOpen THEN Cur
    ELSE [Cur EXCEPT !.menuOpen = TRUE, !.submenu = ShownSubmenu]

EscapeListening_Always(isOpen) == TRUE

\* the keydown listener for Escape is on the document while isOpen
EscapeListening(isOpen) == isOpen

\* the menu button of the bar; the drawer covers the bar while it is in the
\* document
MN_MenuToggle ==
    /\ component = "MobileNavigation" /\ InputReady
    /\ ~DrawerInDocument
    /\ Commit(MN_handleMenuToggle(Cur, Cur), pointer,
              Event("menuToggle", "open", "", 0))

\* the close button of the drawer's header, or the bottom button while it
\* reads Close: onClose
MN_CloseButton(which) ==
    /\ component = "MobileNavigation" /\ InputReady
    /\ DrawerInDocument
    /\ which = "bottom" => ShownSubmenu = ""
    /\ Commit(MN_handleMenuToggle(DrawerRender, Cur), pointer,
              Event("drawerClose", which, "", 0))

\* the Escape key
MN_Escape ==
    /\ component = "MobileNavigation" /\ InputReady
    /\ Commit(IF EscapeListening(mobileMenuOpen)
              THEN MN_handleMenuToggle(Cur, Cur) ELSE Cur, pointer,
              Event("drawerEscape", "", "", 0))

\* a press on item k of the list the drawer shows
MN_ItemClick(k) ==
    /\ component = "MobileNavigation" /\ InputReady
    /\ DrawerInDocument /\ k \in DOMAIN ShownItems
    /\ LET item == ShownItems[k]
       IN Commit(MN_handleMobileItemClick(DrawerRender, Cur, item), pointer,
                 Event(IF item.hasChildren THEN "mobileCategory" ELSE "mobileLeaf",
                       item.label, item.url, k))

\* the bottom button of the drawer while it reads Back
MN_Back ==
    /\ component = "MobileNavigation" /\ InputReady
    /\ DrawerInDocument /\ ShownSubmenu # ""
    /\ Commit(MN_handleMobileItemClick(DrawerRender, Cur, BackItem), pointer,
              Event("mobileBack", "", "", 0))

\* the menu button shows in the mobile layout only
NC_MenuToggle ==
    /\ component = "NavigationContainer" /\ InputReady
    /\ isMobile /\ ~DrawerInDocument
    /\ Commit(NC_handleMenuToggle(Cur, Cur), pointer,
              Event("menuToggle", "open", "", 0))

NC_CloseButton(which) ==
    /\ component = "NavigationContainer" /\ InputReady
    /\ DrawerInDocument
    /\ which = "bottom" => ShownSubmenu = ""
    /\ Commit(NC_handleMenuToggle(DrawerRender, Cur), pointer,
              Event("drawerClose", which, "", 0))

NC_Escape ==
    /\ component = "NavigationContainer" /\ InputReady
    /\ isMobile \/ mobileMenuOpen
    /\ Commit(IF EscapeListening(mobileMenuOpen)
              THEN NC_handleMenuToggle(Cur, Cur) ELSE Cur, pointer,
              Event("drawerEscape", "", "", 0))

NC_MobileItemClick(k) ==
    /\ component = "NavigationContainer" /\ InputReady
    /\ DrawerInDocument /\ k \in DOMAIN ShownItems
    /\ LET item == ShownItems[k]
       IN Commit(NC_handleMobileItemClick(DrawerRender, Cur, item), pointer,
                 Event(IF item.hasChildren THEN "mobileCategory" ELSE "mobileLeaf",
                       item.label, item.url, k))

NC_MobileBack ==
    /\ component = "NavigationContainer" /\ InputReady
    /\ DrawerInDocument /\ ShownSubmenu # ""
    /\ Commit(NC_handleMobileItemClick(DrawerRender, Cur, BackItem), pointer,
              Event("mobileBack", "", "", 0))

-----------------------------------------------------------------------------
(* Timers *)

\* timer i may expire now: nothing armed before it has a delay as short
CanFire(i) == \A j \in 1..(i - 1) : timers[j].delay > timers[i].delay

\* what the callback of timer t does
Callback(t, s) ==
    CASE t.kind = "close" ->
            IF ~t.nav /\ ~t.dd /\ mounted THEN [s EXCEPT !.active = ""] ELSE s
      [] t.kind = "focus" ->
            IF mounted THEN SetFocus(s, t.target) ELSE s
      [] t.kind = "focusFirst" ->
            IF mounted
            THEN focusFirstItem(s, s.active \in dropdowns /\ s.active = toLowerCase(t.label))
            ELSE s
      [] t.kind = "mountFocus" ->
            IF mounted THEN focusFirstItem(s, s.active = t.label) ELSE s
      [] t.kind = "mobileReset" ->
            IF mounted THEN [s EXCEPT !.submenu = "", !.subItems = << >>] ELSE s
      [] t.kind = "mobileLeaf" ->
            LET s1 == IF mounted THEN [s EXCEPT !.submenu = "", !.subItems = << >>] ELSE s
            IN IF t.url # NoUrl /\ t.url # "" /\ t.url # "#"
               THEN [s1 EXCEPT !.navd = Append(s1.navd, t.url)]
               ELSE s1
      [] t.kind = "drawerExit" -> s
      [] t.kind = "navigate" ->
            LET s1 == IF t.url # "" THEN [s EXCEPT !.navd = Append(s.navd, t.url)] ELSE s
                trigger == FindByLabel(t.label)
            IN IF mounted /\ trigger # 0 THEN SetFocus(s1, ItemEl(trigger)) ELSE s1
      [] OTHER -> s

TimerFires(i) ==
    /\ i \in DOMAIN timers
    /\ CanFire(i)
    /\ LET t == timers[i]
           s0 == [Cur EXCEPT !.timers = RemoveAt(timers, i)]
       IN Commit(Callback(t, s0), pointer, Event("timer", t.kind, "", i))

-----------------------------------------------------------------------------
(* Mounting and unmounting *)

\* the component's state and elements are gone once it is unmounted
Unmounted ==
    /\ activeDropdown' = ""
    /\ isHoveringNavItem' = FALSE
    /\ isHoveringDropdown' = FALSE
    /\ mouseLeaveTimeoutRef' = 0
    /\ activeElement' = Body
    /\ pointer' = Outside
    /\ navigated' = << >>
    /\ mobileMenuOpen' = FALSE
    /\ activeSubmenu' = ""
    /\ submenuItems' = << >>

\* DesktopNavigation has no cleanup for its timers; the panel it renders
\* unmounts with it, and DesktopDropdown's effect cleanup clears its own timer
DN_Unmount ==
    /\ component = "DesktopNavigation" /\ mounted
    /\ mounted' = FALSE
    /\ LET keep(t) == t.kind # "mountFocus" IN timers' = SelectSeq(timers, keep)
    /\ lastEvent' = Event("unmount", "", "", 0)
    /\ Unmounted
    /\ UNCHANGED << component, showDropdowns, isMobile >>
    /\ UNCHANGED hookVars

\* NavigationContainer's cleanup effect clears the close timer
NC_Unmount ==
    /\ component = "NavigationContainer" /\ mounted
    /\ mounted' = FALSE
    /\ LET keep(t) == t.kind # "mountFocus" /\ t.kind # "drawerExit"
           own == IF mouseLeaveTimeoutRef # 0
                  THEN clearTimeout(timers, mouseLeaveTimeoutRef) ELSE timers
       IN timers' = SelectSeq(own, keep)
    /\ lastEvent' = Event("unmount", "", "", 0)
    /\ Unmounted
    /\ UNCHANGED << component, showDropdowns, isMobile >>
    /\ UNCHANGED hookVars

\* MobileNavigation has no cleanup for its timers; a drawer that is on its
\* way out leaves the document with it
MN_Unmount ==
    /\ component = "MobileNavigation" /\ mounted
    /\ mounted' = FALSE
    /\ timers' = SetTimeouts(timers)
    /\ lastEvent' = Event("unmount", "", "", 0)
    /\ Unmounted
    /\ UNCHANGED << component, showDropdowns, isMobile >>
    /\ UNCHANGED hookVars

-----------------------------------------------------------------------------

-----------------------------------------------------------------------------
(* getSubmenuItemsForCategory applied to datasets of every shape *)

MaxSourceLen == 2

\* sequences of at most n elements of S
SeqUpTo(S, n) == UNION { [1..m -> S] : m \in 0..n }

\* DropdownItem: a model or a link, its url optional
SourceItems ==
    [label : {"Alpha", "Beta"}, url : {NoUrl, "#alpha"},
     type : {"model", "link"}, group : {NoGroup}]

DatasetNames ==
    {"motorbikesDropdownItems", "scootersDropdownItems", "moreDropdownItems"}

\* the labels the mapping is asked for: the root categories, a leaf, a near miss
CategoryLabels == {"Motorbikes", "Scooters", "More", "Fleet", "Scooter"}

GS_Props ==
    { [DefaultProps EXCEPT ![name] = items] :
        name \in DatasetNames, items \in SeqUpTo(SourceItems, MaxSourceLen) }

\* everything the navigation controllers and their drawer keep
navState == << mounted, navVars, activeSubmenu, submenuItems >>

GS_Call(categoryLabel) ==
    /\ component = "getSubmenuItemsForCategory"
    /\ returned' = getSubmenuItemsForCategory(categoryLabel)
    /\ lastEvent' = Event("getSubmenuItemsForCategory", categoryLabel, "", 0)
    /\ UNCHANGED << component, props, navState, stepVars, apiVars >>

-----------------------------------------------------------------------------
(* DesktopDropdown: the content of the "more" panel *)

MaxMoreLen == 3

\* the dataset the repository ships: eight links, four in each of two groups
RepoMoreItems ==
    << [label |-> "About Us",        url |-> "#about",               type |-> "link", group |-> 0],
       [label |-> "Press",           url |-> "#press",               type |-> "link", group |-> 0],
       [label |-> "Blog",            url |-> "#blog",                type |-> "link", group |-> 0],
       [label |-> "Become a Dealer", url |-> "#become-dealer",       type |-> "link", group |-> 0],
       [label |-> "Support",         url |-> "#support",             type |-> "link", group |-> 1],
       [label |-> "Contact Us",      url |-> "#contact-more",        type |-> "link", group |-> 1],
       [label |-> "FAQ",             url |-> "#faq",                 type |-> "link", group |-> 1],
       [label |-> "Compare Models",  url |-> "#compare-models-more", type |-> "link", group |-> 1] >>

\* MoreLinkItem: a link with a group index, which is any number
GroupIndexes == {0, 1, 2, 10}
MoreSourceItems ==
    [label : {"Alpha", "Beta"}, url : {"#alpha"}, type : {"link"},
     group : GroupIndexes]

DD_Props ==
    { [DefaultProps EXCEPT !.moreDropdownItems = items] :
        items \in SeqUpTo(MoreSourceItems, MaxMoreLen) \cup {RepoMoreItems} }

\* String(n) of a natural number, as the sequence of its decimal digits
RECURSIVE NumberToString(_)
NumberToString(n) == IF n < 10 THEN << n >> ELSE Append(NumberToString(n \div 10), n % 10)

\* x < y for strings: the order of their code units, a proper prefix first
RECURSIVE StringLess(_, _)
StringLess(x, y) ==
    IF y = << >> THEN FALSE
    ELSE IF x = << >> THEN TRUE
    ELSE IF Head(x) # Head(y) THEN Head(x) < Head(y)
    ELSE StringLess(Tail(x), Tail(y))

\* Array.prototype.sort() with no compare function: the elements are ordered
\* by their string conversions
sort(array) == SortSeq(array, LAMBDA a, b : StringLess(NumberToString(a), NumberToString(b)))

\* array.map(Number) of Object.keys(obj) for an object with index keys: the
\* keys in ascending order
RECURSIVE ObjectKeys(_)
ObjectKeys(obj) ==
    IF DOMAIN obj = {} THEN << >>
    ELSE LET k == CHOOSE x \in DOMAIN obj : \A y \in DOMAIN obj : x <= y
         IN << k >> \o ObjectKeys([g \in DOMAIN obj \ {k} |-> obj[g]])

IsMoreLinkItem(item) == item.type = "link" /\ item.group # NoGroup

\* moreItems.reduce((acc, item) => { acc[item.group].push(item) }, {})
groupedItems(moreItems) ==
    [g \in {moreItems[j].group : j \in DOMAIN moreItems} |->
        SelectSeq(moreItems, LAMBDA item : item.group = g)]

Max(a, b) == IF a >= b THEN a ELSE b

\* renderDropdownContent, case 'more': the columns of the panel in the order
\* they are rendered, and the number of placeholder columns after them
renderDropdownContent(items) ==
    LET moreItems == SelectSeq(items, IsMoreLinkItem)
        grouped == groupedItems(moreItems)
        groupKeys == sort(ObjectKeys(grouped))
    IN IF Len(moreItems) = 0
       THEN [noItems |-> TRUE, groups |-> << >>, placeholders |-> 0]
       ELSE [noItems |-> FALSE,
             groups |-> [k \in DOMAIN groupKeys |->
                            [group |-> groupKeys[k], items |-> grouped[groupKeys[k]]]],
             placeholders |-> Max(0, 2 - Len(groupKeys))]

DD_Render ==
    /\ component = "DesktopDropdown"
    /\ returned' = renderDropdownContent(props.moreDropdownItems)
    /\ lastEvent' = Event("renderDropdownContent", "more", "", 0)
    /\ UNCHANGED << component, props, navState, stepVars, apiVars >>

-----------------------------------------------------------------------------
(* useStepNavigation *)

MaxSteps == 3
MaxHistory == 3

\* the options the hook is set up with; totalSteps <= 0 throws in the first
\* render, onStepChange is given or not
SN_Props ==
    { [DefaultProps EXCEPT !.totalSteps = n, !.initialStep = i, !.onStepChange = b] :
        n \in 1..MaxSteps, i \in 0..(MaxSteps + 1), b \in BOOLEAN }

totalSteps == props.totalSteps

\* an initialStep outside 1..totalSteps defaults to 1
initialStep ==
    IF props.initialStep < 1 \/ props.initialStep > totalSteps
    THEN 1 ELSE props.initialStep

\* what the callbacks of the current render read
StepRender == [currentStep |-> currentStep, stepHistory |-> stepHistory]

\* the state updates and onStepChange calls queued so far in a handler
StepQueue(r) ==
    [currentStep |-> r.currentStep, stepHistory |-> r.stepHistory,
     onStepChange |-> << >>, returned |-> << >>]

\* if (onStepChange) onStepChange(step)
Notify(q, step) ==
    IF props.onStepChange THEN [q EXCEPT !.onStepChange = Append(@, step)] ELSE q

Returns(q, value) == [q EXCEPT !.returned = Append(@, value)]

nextStep(r, q) ==
    IF r.currentStep < totalSteps
    THEN LET nextStepValue == r.currentStep + 1
         IN Returns(Notify([q EXCEPT !.currentStep = nextStepValue,
                                     !.stepHistory = Append(@, nextStepValue)],
                           nextStepValue), TRUE)
    ELSE Returns(q, FALSE)

prevStep(r, q) ==
    IF Len(r.stepHistory) > 1
    THEN LET newHistory == SubSeq(r.stepHistory, 1, Len(r.stepHistory) - 1)
             prevStepValue == newHistory[Len(newHistory)]
         IN Returns(Notify([q EXCEPT !.currentStep = prevStepValue,
                                     !.stepHistory = newHistory],
                           prevStepValue), TRUE)
    ELSE IF r.currentStep > 1 /\ Len(r.stepHistory) = 1 /\ r.stepHistory[1] = 1
    THEN Returns(Notify([q EXCEPT !.currentStep = 1], 1), TRUE)
    ELSE Returns(q, FALSE)

\* array.indexOf(step), counted from 1; 0 when the step is not in the array
indexOf(array, step) ==
    IF \E j \in DOMAIN array : array[j] = step
    THEN CHOOSE j \in DOMAIN array :
            array[j] = step /\ \A l \in 1..(j - 1) : array[l] # step
    ELSE 0

goToStep(r, q, step) ==
    IF step >= 1 /\ step <= totalSteps
    THEN LET historyIndex == indexOf(r.stepHistory, step)
             q1 == [q EXCEPT !.currentStep = step]
             q2 == IF historyIndex # 0
                   THEN [q1 EXCEPT !.stepHistory = SubSeq(r.stepHistory, 1, historyIndex)]
                   ELSE [q1 EXCEPT !.stepHistory = Append(@, step)]
         IN Returns(Notify(q2, step), TRUE)
    ELSE Returns(q, FALSE)

resetSteps(r, q) ==
    Returns(Notify([q EXCEPT !.currentStep = initialStep,
                             !.stepHistory = << initialStep >>], initialStep),
            "undefined")

StepCalls ==
    {[op |-> o, step |-> 0] : o \in {"nextStep", "prevStep", "resetSteps"}}
        \cup {[op |-> "goToStep", step |-> n] : n \in 0..(MaxSteps + 1)}

Call(c, r, q) ==
    CASE c.op = "nextStep"   -> nextStep(r, q)
      [] c.op = "prevStep"   -> prevStep(r, q)
      [] c.op = "goToStep"   -> goToStep(r, q, c.step)
      [] c.op = "resetSteps" -> resetSteps(r, q)

\* the calls of one event handler all come from the render the handler was
\* created in; their updates are applied together in the render that follows
RECURSIVE CallAll(_, _, _)
CallAll(cs, r, q) ==
    IF cs = << >> THEN q ELSE CallAll(Tail(cs), r, Call(Head(cs), r, q))

SN_Handler(cs) ==
    LET q == CallAll(cs, StepRender, StepQueue(StepRender))
    IN /\ Len(q.stepHistory) <= MaxHistory
       /\ currentStep' = q.currentStep
       /\ stepHistory' = q.stepHistory
       /\ onStepChange' = q.onStepChange
       /\ returned' = q.returned
       /\ calls' = cs
       /\ stepBefore' = StepRender
       /\ lastEvent' = Event("stepCalls", "", "", 0)
       /\ UNCHANGED << component, props, navState, apiVars >>

\* an event handler of the consumer that makes one call
SN_Call(c) ==
    /\ component = "useStepNavigation"
    /\ SN_Handler(<< c >>)

\* an event handler of the consumer that makes two calls
SN_Calls(c, d) ==
    /\ component = "useStepNavigation"
    /\ SN_Handler(<< c, d >>)

-----------------------------------------------------------------------------
(* useApiData *)

MaxRetries == 2

\* fetchData as the effect runs it: it is the (retryCount + 1)-th fetch
fetchData(n) ==
    /\ loading' = TRUE
    /\ error' = 0
    /\ fetches' = fetches \cup {n}

\* retry(): retryCount changes, fetchData is a new callback and the effect
\* that depends on it runs it; the fetch before it is neither awaited nor aborted
AD_Retry ==
    /\ component = "useApiData"
    /\ retryCount < MaxRetries
    /\ retryCount' = retryCount + 1
    /\ fetchData(retryCount + 2)
    /\ lastEvent' = Event("retry", "", "", 0)
    /\ UNCHANGED << data, returned >>
    /\ UNCHANGED << component, props, navState, stepVars >>

\* fetchVehicleData of fetch n resolves: try block, then finally
AD_Resolve(n) ==
    /\ component = "useApiData"
    /\ n \in fetches
    /\ data' = n
    /\ error' = 0
    /\ loading' = FALSE
    /\ fetches' = fetches \ {n}
    /\ lastEvent' = Event("resolve", "", "", 0)
    /\ UNCHANGED << retryCount, returned >>
    /\ UNCHANGED << component, props, navState, stepVars >>

\* fetchVehicleData of fetch n rejects: catch block, then finally
AD_Reject(n) ==
    /\ component = "useApiData"
    /\ n \in fetches
    /\ error' = n
    /\ data' = 0
    /\ loading' = FALSE
    /\ fetches' = fetches \ {n}
    /\ lastEvent' = Event("reject", "", "", 0)
    /\ UNCHANGED << retryCount, returned >>
    /\ UNCHANGED << component, props, navState, stepVars >>

-----------------------------------------------------------------------------

Controllers == {"DesktopNavigation", "NavigationContainer", "MobileNavigation"}

InitialProps ==
    CASE component = "getSubmenuItemsForCategory" -> GS_Props
      [] component = "DesktopDropdown" -> DD_Props
      [] component = "useStepNavigation" -> SN_Props
      [] OTHER -> {DefaultProps}

Init ==
    /\ component \in Controllers \cup {"getSubmenuItemsForCategory", "DesktopDropdown", "useStepNavigation",
                         "useApiData"}
    /\ mounted = TRUE
    /\ showDropdowns \in (IF component = "NavigationContainer" THEN BOOLEAN ELSE {TRUE})
    /\ isMobile = FALSE
    /\ activeDropdown = ""
    /\ isHoveringNavItem = FALSE
    /\ isHoveringDropdown = FALSE
    /\ mouseLeaveTimeoutRef = 0
    /\ timers = << >>
    /\ activeElement = Body
    /\ pointer = Outside
    /\ navigated = << >>
    /\ mobileMenuOpen = FALSE
    /\ activeSubmenu = ""
    /\ submenuItems = << >>
    /\ lastEvent = [kind |-> "init", a |-> "", b |-> "", before |-> ""]
    /\ props \in InitialProps
    /\ returned = << >>
    /\ currentStep = initialStep
    /\ stepHistory = << initialStep >>
    /\ onStepChange = << >>
    /\ calls = << >>
    /\ stepBefore = [currentStep |-> currentStep, stepHistory |-> stepHistory]
    /\ loading = TRUE
    /\ error = 0
    /\ data = 0
    /\ retryCount = 0
    /\ fetches = IF component = "useApiData" THEN {1} ELSE {}

Next ==
    \/ \E q \in Regions : DN_MovePointer(q)
    \/ \E i \in Items, f \in BOOLEAN : DN_ClickItem(i, f)
    \/ \E i \in Items, key \in Keys, back \in BOOLEAN : DN_KeyOnItem(i, key, back)
    \/ \E j \in 1..PanelSize, key \in PanelKeys \cup {"Enter", " "} : DN_KeyInPanel(j, key)
    \/ \E j \in 1..PanelSize, f \in BOOLEAN : DN_ClickPanelItem(j, f)
    \/ DN_MouseDownOutside
    \/ DN_MouseDownInside
    \/ \E i \in Items : DN_TabInto(i)
    \/ \E i \in 1..(MaxTimers + 1) : TimerFires(i)
    \/ DN_Unmount
    \/ \E q \in Regions : NC_MovePointer(q)
    \/ \E i \in Items : NC_ClickItem(i)
    \/ \E j \in 1..PanelSize : NC_ClickPanelItem(j)
    \/ NC_Resize
    \/ NC_Unmount
    \/ MN_MenuToggle
    \/ \E which \in {"header", "bottom"} : MN_CloseButton(which)
    \/ MN_Escape
    \/ \E k \in 1..MaxListLen : MN_ItemClick(k)
    \/ MN_Back
    \/ MN_Unmount
    \/ NC_MenuToggle
    \/ \E which \in {"header", "bottom"} : NC_CloseButton(which)
    \/ NC_Escape
    \/ \E k \in 1..MaxListLen : NC_MobileItemClick(k)
    \/ NC_MobileBack
    \/ \E categoryLabel \in CategoryLabels : GS_Call(categoryLabel)
    \/ DD_Render
    \/ \E c \in StepCalls : SN_Call(c)
    \/ \E c, d \in StepCalls : SN_Calls(c, d)
    \/ AD_Retry
    \/ \E n \in 1..(MaxRetries + 1) : AD_Resolve(n)
    \/ \E n \in 1..(MaxRetries + 1) : AD_Reject(n)

Spec == Init /\ [][Next]_vars

\* setTimeout callbacks are run by the event loop once their delay is over
FairSpec == Spec /\ WF_vars(\E i \in 1..(MaxTimers + 1) : TimerFires(i))

-----------------------------------------------------------------------------
(* Properties *)

CloseTimers == {j \in DOMAIN timers : timers[j].kind = "close"}
\* the close timers whose callback will clear activeDropdown when it runs
ClosingTimers == {j \in CloseTimers : ~timers[j].nav /\ ~timers[j].dd}

Desktop ==
    \/ component = "DesktopNavigation"
    \/ component = "NavigationContainer" /\ ~isMobile /\ showDropdowns

KeyOf(i) == IF desktopMenuItems[i].hasDropdown
            THEN toLowerCase(desktopMenuItems[i].label) ELSE ""

\* C1: hover-intent debounce (safety).  While a close timer whose callback
\* will clear activeDropdown is pending, neither hover flag is set: entering
\* an item or the panel after a leave cancels it, so whenever such a callback
\* runs both flags are false at that moment.
C1_HoverIntentDebounce ==
    mounted /\ ClosingTimers # {} => ~isHoveringNavItem /\ ~isHoveringDropdown

\* a close timer expired and closed the open submenu
C1_Witness ==
    /\ lastEvent.kind = "timer" /\ lastEvent.a = "close"
    /\ lastEvent.before # "" /\ activeDropdown = ""
    /\ mounted

\* C3: after the pointer enters a top-level item the active key is that
\* item's key if it owns a submenu and empty otherwise, at once, and no close
\* timer is pending; at most one panel is in the document.
C3_HoverOpens ==
    /\ (mounted /\ Desktop /\ lastEvent.kind = "pointer" /\ lastEvent.b = "item") =>
            /\ pointer.k = "item"
            /\ activeDropdown = KeyOf(pointer.i)
            /\ CloseTimers = {}
    /\ Cardinality({k \in dropdowns : activeDropdown = k}) <= 1

\* hover(A) then hover(B): the pointer went from one submenu owner to another
C3_Witness ==
    /\ lastEvent.kind = "pointer" /\ lastEvent.a = "item" /\ lastEvent.b = "item"
    /\ lastEvent.before = "motorbikes" /\ activeDropdown = "scooter"

\* C4 as stated: a pending close timer implies both hover flags are false and
\* a submenu is open.
C4_Original ==
    mounted /\ CloseTimers # {} =>
        ~isHoveringNavItem /\ ~isHoveringDropdown /\ activeDropdown # ""

\* C4 amended: while a close timer is pending at least one hover flag is
\* false (arming clears one flag, setting a flag cancels the timer); the
\* other flag may be set and no submenu need be open.
C4_PendingTimerFlags ==
    mounted /\ CloseTimers # {} => ~(isHoveringNavItem /\ isHoveringDropdown)

\* a close timer is pending while the panel is still hovered
C4_Witness ==
    /\ mounted /\ CloseTimers # {}
    /\ isHoveringDropdown /\ activeDropdown # ""

\* C5: at most one close timer is live per controller instance.
C5_SingleCloseTimer == Cardinality(CloseTimers) <= 1

\* a leave re-armed the timer while the previous one was still pending: the
\* new timer got the next id
C5_Witness ==
    /\ mouseLeaveTimeoutRef = 2
    /\ Cardinality(CloseTimers) = 1

\* C2: hover-intent close (liveness).  Once the pointer has left to outside
\* the navigation container with a submenu open and both hover flags false,
\* no focus move or navigation still scheduled, and no further input arrives,
\* the submenu is eventually closed.  A further pointer event moves the
\* pointer off "outside"; any other input changes the kind of the last event.
C2_LeftOpen ==
    /\ mounted /\ component = "DesktopNavigation"
    /\ lastEvent.kind = "pointer" /\ lastEvent.b = "outside"
    /\ pointer = Outside
    /\ activeDropdown # "" /\ ~isHoveringNavItem /\ ~isHoveringDropdown
    /\ \A j \in DOMAIN timers : timers[j].kind = "close"

C2_ClosedOrInput ==
    \/ activeDropdown = ""
    \/ ~mounted
    \/ pointer # Outside
    \/ lastEvent.kind \notin {"pointer", "timer"}

C2_HoverIntentClose == C2_LeftOpen ~> C2_ClosedOrInput

\* C6: after unmount no timer callback armed by the controller runs: every
\* pending timer was cleared.
C6_UnmountClearsTimers == ~mounted => timers = << >> /\ lastEvent.kind # "timer"

\* the entry under the pointer was clicked in the desktop layout
ClickedItem ==
    /\ mounted /\ ~isMobile
    /\ lastEvent.kind = "click" /\ pointer.k = "item"

Toggled(i) == IF lastEvent.before = KeyOf(i) THEN "" ELSE KeyOf(i)

\* C7 as stated: a click on a submenu owner toggles its submenu, leaves no
\* close timer pending and does not navigate.
C7_Original ==
    ClickedItem /\ desktopMenuItems[pointer.i].hasDropdown =>
        /\ activeDropdown = Toggled(pointer.i)
        /\ CloseTimers = {}
        /\ navigated = << >>

\* C7 amended: that holds where dropdowns are enabled (always in
\* DesktopNavigation, with showDropdowns in NavigationContainer); with
\* showDropdowns off NavigationContainer handles the owner as a plain entry
\* and nothing is open after the click.
C7_ClickToggles ==
    ClickedItem /\ desktopMenuItems[pointer.i].hasDropdown =>
        IF Desktop
        THEN /\ activeDropdown = Toggled(pointer.i)
             /\ CloseTimers = {}
             /\ navigated = << >>
        ELSE activeDropdown = ""

\* the second of two clicks on an owner: the click closed its own submenu
C7_Witness ==
    /\ ClickedItem /\ Desktop
    /\ desktopMenuItems[pointer.i].hasDropdown
    /\ lastEvent.before = KeyOf(pointer.i) /\ activeDropdown = ""

\* C8: a click on a plain entry leaves nothing open and calls navigate once
\* with the entry's url when that is a real link and not at all when it is
\* missing or "#"; navigate is never called with "#".
C8_PlainClickNavigates ==
    /\ ClickedItem /\ ~desktopMenuItems[pointer.i].hasDropdown =>
           /\ activeDropdown = ""
           /\ navigated = IF desktopMenuItems[pointer.i].url \in {NoUrl, "#"}
                          THEN << >> ELSE << desktopMenuItems[pointer.i].url >>
    /\ \A k \in DOMAIN navigated : navigated[k] # "#"

\* the pending sequence of focus moves with the given delay
FocusMoves(ts, delay) ==
    LET is(t) == t.kind = "focus" /\ t.delay = delay
        sel == SelectSeq(ts, is)
    IN [j \in DOMAIN sel |-> sel[j].target]

Trigger(key) == ItemEl(FindByLabel(key))

\* this step is an Escape key press
EscapeStep == mounted /\ lastEvent'.kind = "key" /\ lastEvent'.a = "Escape"

CloseStep ==
    /\ mounted /\ component = "DesktopNavigation"
    /\ \/ lastEvent'.kind = "key" /\ lastEvent'.a \in {"Escape", "Tab"}
       \/ /\ lastEvent'.kind = "click" /\ pointer.k = "item"
          /\ ~desktopMenuItems[pointer.i].hasDropdown

CloseTarget ==
    IF lastEvent'.kind = "key" /\ lastEvent'.a = "Escape" /\ lastEvent'.b = "item"
    THEN activeElement ELSE Trigger(activeDropdown)

KeyStep(key, where) ==
    /\ mounted /\ component = "DesktopNavigation"
    /\ lastEvent'.kind = "key" /\ lastEvent'.a = key /\ lastEvent'.b = where

\* timer j runs in this step
Fires(j) == mounted /\ component = "DesktopNavigation" /\ TimerFires(j)

NoCloseTimer(ts) == \A j \in DOMAIN ts : ts[j].kind # "close"

\* C11: Tab on a top-level item while a submenu is open closes the submenu
\* and schedules no focus return to a trigger.
C11_TabNoFocusReturn ==
    [][KeyStep("Tab", "item") /\ activeDropdown # "" =>
          /\ activeDropdown' = ""
          /\ FocusMoves(timers', 50) = FocusMoves(timers, 50)
          /\ FocusMoves(timers', 0) = << >>]_vars

\* C12: ArrowRight on item i schedules focus for item i+1, the first after
\* the last; ArrowLeft for item i-1, the last before the first; the move puts
\* focus there when it runs, and activeDropdown does not change.
C12_ArrowLeftRight ==
    [][/\ \A i \in Items :
            /\ KeyStep("ArrowRight", "item") /\ activeElement = ItemEl(i) =>
                  /\ FocusMoves(timers', 0) =
                        << ItemEl(IF i = Len(desktopMenuItems) THEN 1 ELSE i + 1) >>
                  /\ activeDropdown' = activeDropdown
            /\ KeyStep("ArrowLeft", "item") /\ activeElement = ItemEl(i) =>
                  /\ FocusMoves(timers', 0) =
                        << ItemEl(IF i = 1 THEN Len(desktopMenuItems) ELSE i - 1) >>
                  /\ activeDropdown' = activeDropdown
       /\ \A j \in DOMAIN timers :
            (/\ timers[j].kind = "focus" /\ timers[j].delay = 0
             /\ timers[j].target.k = "item" /\ Fires(j)) =>
                /\ activeElement' = timers[j].target
                /\ activeDropdown' = activeDropdown]_vars

\* ArrowLeft was pressed on the first item: focus is scheduled for the last
C12_Witness ==
    /\ mounted /\ lastEvent.kind = "key" /\ lastEvent.a = "ArrowLeft"
    /\ activeElement = ItemEl(1)
    /\ FocusMoves(timers, 0) = << ItemEl(Len(desktopMenuItems)) >>

\* C13: Enter or Space on a submenu owner toggles its submenu and leaves no
\* close timer pending; when it opened the submenu the handler has scheduled
\* focus for the first item of that panel, which gets focus when the timer
\* runs with the panel still mounted; when it closed the submenu focus is
\* scheduled for the trigger itself.
C13_EnterSpaceToggles ==
    [][/\ \A i \in Items : \A key \in {"Enter", " "} :
            (/\ KeyStep(key, "item") /\ activeElement = ItemEl(i)
             /\ desktopMenuItems[i].hasDropdown) =>
                /\ activeDropdown' = IF activeDropdown = KeyOf(i) THEN "" ELSE KeyOf(i)
                /\ NoCloseTimer(timers')
                /\ activeElement' = ItemEl(i)
                /\ IF activeDropdown' # ""
                   THEN /\ \E j \in DOMAIN timers' :
                              /\ timers'[j].kind = "focusFirst"
                              /\ toLowerCase(timers'[j].label) = activeDropdown'
                        /\ FocusMoves(timers', 0) = << >>
                   ELSE FocusMoves(timers', 0) = << ItemEl(i) >>
       /\ \A j \in DOMAIN timers :
            (/\ timers[j].kind = "focusFirst" /\ Fires(j)
             /\ activeDropdown = toLowerCase(timers[j].label)) =>
                /\ activeElement' = PanelEl(1)
                /\ activeDropdown' = activeDropdown]_vars

\* the focus scheduled by an opening key press has landed on the first item
C13_Witness ==
    /\ mounted /\ lastEvent.kind = "timer" /\ lastEvent.a = "focusFirst"
    /\ activeDropdown # "" /\ activeElement = PanelEl(1)

\* C14: ArrowDown on a submenu owner never closes: a submenu that is not
\* active becomes the active one and focus is scheduled for its first item;
\* one that is active stays and its first item has focus at once.  ArrowDown
\* on a plain entry changes nothing.
C14_ArrowDownOpens ==
    [][\A i \in Items :
          KeyStep("ArrowDown", "item") /\ activeElement = ItemEl(i) =>
              IF desktopMenuItems[i].hasDropdown
              THEN /\ activeDropdown' = KeyOf(i)
                   /\ IF activeDropdown = KeyOf(i)
                      THEN activeElement' = PanelEl(1)
                      ELSE /\ NoCloseTimer(timers')
                           /\ \E j \in DOMAIN timers' :
                                 /\ timers'[j].kind = "focusFirst"
                                 /\ toLowerCase(timers'[j].label) = KeyOf(i)
              ELSE UNCHANGED << activeDropdown, isHoveringNavItem, isHoveringDropdown,
                                timers, activeElement, mouseLeaveTimeoutRef >>]_vars

\* ArrowDown on the trigger of the submenu that was already open
C14_Witness ==
    /\ mounted /\ lastEvent.kind = "key" /\ lastEvent.a = "ArrowDown"
    /\ lastEvent.b = "item"
    /\ lastEvent.before # "" /\ activeDropdown = lastEvent.before
    /\ activeElement = PanelEl(1)

C16_TabInPanel ==
    [][/\ KeyStep("Tab", "panel") =>
            /\ activeDropdown # "" /\ activeDropdown' = ""
            /\ activeElement'.k # "panel"
            /\ FocusMoves(timers', 0) = << >>
            /\ \E j \in DOMAIN timers' :
                  timers'[j] = FocusTimer(50, Trigger(activeDropdown))
       /\ \A j \in DOMAIN timers :
            (/\ timers[j].kind = "focus" /\ timers[j].delay = 50 /\ Fires(j)) =>
                /\ activeElement' = timers[j].target
                /\ activeElement'.k = "item"]_vars

\* Tab was pressed inside the panel: it is closed and focus has left it
C16_Witness ==
    /\ mounted /\ lastEvent.kind = "key" /\ lastEvent.a = "Tab"
    /\ lastEvent.b = "panel"
    /\ lastEvent.before # "" /\ activeDropdown = ""
    /\ activeElement = Body

\* C17: every step that opens the drawer lands in the root list, with
\* activeSubmenu empty, and a category is entered only from the root list of
\* the open drawer.
C17_OpenLandsInRoot ==
    [][/\ mounted /\ ~mobileMenuOpen /\ mobileMenuOpen' => activeSubmenu' = ""
       /\ mounted /\ activeSubmenu' # "" /\ activeSubmenu' # activeSubmenu =>
             mobileMenuOpen /\ activeSubmenu = ""]_vars

\* this step is a press on a leaf item of the drawer
LeafStep == mounted /\ lastEvent'.kind = "mobileLeaf"

RealLink(url) == url # NoUrl /\ url # "" /\ url # "#"

\* C18 as stated: a leaf press closes the drawer at once and, once the close
\* delay is over, activeSubmenu is empty and navigate has been called exactly
\* once, with the leaf's url.
C18_Original ==
    [][/\ LeafStep => ~mobileMenuOpen'
       /\ LeafStep /\ component = "NavigationContainer" =>
             activeSubmenu' = "" /\ navigated' = << lastEvent'.b >>
       /\ LeafStep /\ component = "MobileNavigation" =>
             \E j \in DOMAIN timers' :
                 timers'[j].kind = "mobileLeaf" /\ timers'[j].url = lastEvent'.b
       /\ \A j \in DOMAIN timers :
             timers[j].kind = "mobileLeaf" /\ TimerFires(j) =>
                 activeSubmenu' = "" /\ navigated' = << timers[j].url >>]_vars

\* C18 amended: a leaf press closes the drawer at once; once the close delay
\* is over activeSubmenu is empty and navigate has been called exactly once
\* with the leaf's url when that is a real link, and not at all when the leaf
\* has no url (nor, in MobileNavigation, when it is "#").
C18_LeafClosesThenNavigates ==
    [][/\ LeafStep => ~mobileMenuOpen'
       /\ LeafStep /\ component = "NavigationContainer" =>
             /\ activeSubmenu' = ""
             /\ RealLink(lastEvent'.b) => navigated' = << lastEvent'.b >>
             /\ lastEvent'.b = NoUrl => navigated' = << >>
       /\ LeafStep /\ component = "MobileNavigation" =>
             /\ navigated' = << >>
             /\ \E j \in DOMAIN timers' :
                   timers'[j].kind = "mobileLeaf" /\ timers'[j].url = lastEvent'.b
       /\ \A j \in DOMAIN timers :
             timers[j].kind = "mobileLeaf" /\ TimerFires(j) =>
                 /\ activeSubmenu' = ""
                 /\ navigated' = IF RealLink(timers[j].url)
                                 THEN << timers[j].url >> ELSE << >>]_vars

\* the timer of a press on a category's leaf has run and navigated to it
C18_Witness ==
    /\ component = "MobileNavigation" /\ mounted
    /\ lastEvent.kind = "timer" /\ lastEvent.a = "mobileLeaf"
    /\ navigated = << "#km5000" >>
    /\ activeSubmenu = "" /\ ~mobileMenuOpen

\* C19: the step of a leaf press changes neither activeSubmenu nor the list
\* shown and does not call navigate, in MobileNavigation and in
\* NavigationContainer; these happen when the close delay is over.
C19_LeafOrdering ==
    [][LeafStep =>
          /\ activeSubmenu' = activeSubmenu
          /\ submenuItems' = submenuItems
          /\ navigated' = << >>]_vars

\* the children the drawer is to show for a category label
CategoryChildren(label) ==
    CASE label = "Motorbikes" -> MobileChildren(motorbikesDropdownItems)
      [] label = "Scooters"   -> MobileChildren(scootersDropdownItems)
      [] label = "More"       -> MoreChildren(moreDropdownItems)
      [] OTHER                -> << >>

\* C20: the list the drawer shows is the root list while activeSubmenu is
\* empty and the mapped children of activeSubmenu otherwise; after a press on
\* an entry with children activeSubmenu is that entry's label.
C20_VisibleItems ==
    /\ mounted =>
          currentMobileNavItems =
             IF activeSubmenu = "" THEN mobileMenuItems ELSE CategoryChildren(activeSubmenu)
    /\ mounted /\ lastEvent.kind = "mobileCategory" =>
          /\ activeSubmenu = lastEvent.a
          /\ currentMobileNavItems = CategoryChildren(lastEvent.a)

\* the Scooters category was entered and its two children are shown
C20_Witness ==
    /\ mounted /\ mobileMenuOpen
    /\ lastEvent.kind = "mobileCategory" /\ activeSubmenu = "Scooters"
    /\ Len(currentMobileNavItems) = 2

\* this step is a press on the drawer's Back button
BackStep == mounted /\ lastEvent'.kind = "mobileBack"

\* C21: Back leads from the submenu list to the root list (activeSubmenu
\* becomes empty), leaves mobileMenuOpen as it was and does not call navigate;
\* it arms no timer that could do so later.
C21_BackToRoot ==
    [][BackStep =>
          /\ activeSubmenu' = ""
          /\ currentMobileNavItems' = mobileMenuItems
          /\ mobileMenuOpen' = mobileMenuOpen
          /\ navigated' = << >>
          /\ SetTimeouts(timers') = SetTimeouts(timers)]_vars

\* Back was pressed in the open drawer, which now shows the root list
C21_Witness ==
    /\ mounted /\ lastEvent.kind = "mobileBack"
    /\ mobileMenuOpen /\ activeSubmenu = "" /\ submenuItems # << >>

\* what closing the open drawer does: mobileMenuOpen becomes false, navigate
\* is not called, and activeSubmenu is cleared at once (NavigationContainer)
\* or by the reset timer armed now (MobileNavigation)
DrawerCloses ==
    /\ ~mobileMenuOpen'
    /\ navigated' = << >>
    /\ IF component = "MobileNavigation"
       THEN /\ activeSubmenu' = activeSubmenu /\ submenuItems' = submenuItems
            /\ SetTimeouts(timers') = Append(SetTimeouts(timers), MobileResetTimer)
       ELSE /\ activeSubmenu' = "" /\ submenuItems' = << >>
            /\ SetTimeouts(timers') = SetTimeouts(timers)

\* C22: with the drawer open, in the root list or in a submenu list, Escape
\* makes the same transition as the close button (mobileMenuOpen becomes
\* false and activeSubmenu is cleared, at once or when the reset timer armed
\* by the close expires); Escape with the drawer closed changes nothing.
C22_EscapeIsClose ==
    [][/\ mounted /\ mobileMenuOpen /\ lastEvent'.kind = "drawerEscape" => DrawerCloses
       /\ mounted /\ mobileMenuOpen /\ lastEvent'.kind = "drawerClose" => DrawerCloses
       /\ \A j \in DOMAIN timers :
             mounted /\ timers[j].kind = "mobileReset" /\ TimerFires(j) =>
                 activeSubmenu' = ""
       /\ mounted /\ ~mobileMenuOpen /\ lastEvent'.kind = "drawerEscape" =>
             UNCHANGED << mobileMenuOpen, activeSubmenu, submenuItems, timers,
                          activeDropdown, activeElement >>]_vars

\* Escape was pressed in a submenu list: the drawer is closing and the reset
\* of activeSubmenu is pending
C22_Witness ==
    /\ mounted /\ lastEvent.kind = "drawerEscape"
    /\ ~mobileMenuOpen /\ DrawerExiting /\ ShownSubmenu # ""
    /\ activeSubmenu = ShownSubmenu
    /\ \E j \in DOMAIN timers : timers[j].kind = "mobileReset"

\* C25: a reset armed by an earlier close never changes a later session of
\* the drawer: when a mobileReset or mobileLeaf timer expires while the drawer
\* is open again, activeSubmenu and the list shown stay as they are.
C25_StaleResetHarmless ==
    [][\A j \in DOMAIN timers :
          /\ mounted /\ mobileMenuOpen
          /\ timers[j].kind \in {"mobileReset", "mobileLeaf"}
          /\ TimerFires(j)
          => /\ activeSubmenu' = activeSubmenu
             /\ currentMobileNavItems' = currentMobileNavItems]_vars

\* C26: after any invocation of onClose (the close button of the header, the
\* bottom Close button, Escape) the drawer is closed, also when it is invoked
\* again before the drawer has left the document.
C26_CloseNeverOpens ==
    [][mounted /\ lastEvent'.kind \in {"drawerClose", "drawerEscape"} =>
          ~mobileMenuOpen']_vars

\* the pending timers that return focus to a trigger
FocusReturns(ts) == {j \in DOMAIN ts : ts[j].kind = "focus"}

\* C27: a click on an item of the open panel clears activeDropdown at once and
\* calls nothing yet; 600 ms later the callback calls navigate exactly once
\* with the item's url when that is a real link (not at all for a missing url
\* or "#"), then focuses the trigger of the panel that was open, and leaves
\* activeDropdown, which a hover or click may have set meanwhile, as it is.
C27_PanelItemClick ==
    [][/\ mounted /\ component = "DesktopNavigation" /\ lastEvent'.kind = "panelClick" =>
             /\ activeDropdown' = "" /\ navigated' = << >>
             /\ \E j \in DOMAIN timers' :
                   /\ timers'[j].kind = "navigate" /\ timers'[j].delay = 600
                   /\ timers'[j].label = activeDropdown
                   /\ timers'[j].url =
                         IF RealLink(lastEvent'.b) THEN lastEvent'.b ELSE ""
       /\ \A j \in DOMAIN timers :
             timers[j].kind = "navigate" /\ Fires(j) =>
                 /\ navigated' = IF RealLink(timers[j].url)
                                 THEN << timers[j].url >> ELSE << >>
                 /\ activeElement' = ItemEl(FindByLabel(timers[j].label))
                 /\ activeDropdown' = activeDropdown]_vars

\* the callback of a click in the Motorbikes panel has navigated and focused
\* the Motorbikes trigger while the Scooter submenu, opened meanwhile, is open
C27_Witness ==
    /\ mounted /\ component = "DesktopNavigation"
    /\ lastEvent.kind = "timer" /\ lastEvent.a = "navigate"
    /\ navigated = << "#km5000" >>
    /\ activeElement = ItemEl(1)
    /\ activeDropdown = "scooter"

SourceDataset(label) ==
    CASE label = "Motorbikes" -> props.motorbikesDropdownItems
      [] label = "Scooters"   -> props.scootersDropdownItems
      [] label = "More"       -> props.moreDropdownItems
      [] OTHER                -> << >>

\* entry j of out is what item j of the dataset of the category maps to
MappedFrom(label, src, out, j) ==
    /\ out[j].label = src[j].label
    /\ out[j].url = src[j].url
    /\ out[j].hasChildren = FALSE
    /\ out[j].icon = IF label = "More" THEN "topRight"
                     ELSE IF src[j].type = "model" THEN "right"
                     ELSE "topRight"

\* the mapping was applied in the last step: called on its own, or by a press
\* on a category of the drawer
MappingApplied ==
    \/ component = "getSubmenuItemsForCategory" /\
       lastEvent.kind = "getSubmenuItemsForCategory"
    \/ lastEvent.kind = "mobileCategory"

MappingOutput ==
    IF component = "getSubmenuItemsForCategory" THEN returned ELSE submenuItems

\* C23: the list a category maps to has the length and the order of the
\* category's dataset, every entry copies label and url of its source item and
\* has hasChildren false; entries of the "more" dataset carry the external-link
\* icon, model entries the chevron and link entries the external-link icon; a
\* label with no dataset maps to the empty list.
C23_MappingShape ==
    MappingApplied =>
        LET src == SourceDataset(lastEvent.a)
            out == MappingOutput
        IN /\ Len(out) = Len(src)
           /\ \A j \in DOMAIN src : MappedFrom(lastEvent.a, src, out, j)

\* a two-item dataset with a model first and a link second was mapped, and so
\* was a label with no dataset
C23_Witness ==
    /\ component = "getSubmenuItemsForCategory"
    /\ lastEvent.kind = "getSubmenuItemsForCategory"
    /\ lastEvent.a = "Scooters"
    /\ Len(props.scootersDropdownItems) = MaxSourceLen
    /\ props.scootersDropdownItems[1].type = "link"
    /\ props.scootersDropdownItems[1].label = "Beta"
    /\ props.scootersDropdownItems[2].type = "model"
    /\ returned[1].icon = "topRight" /\ returned[2].icon = "right"

\* the "more" panel was rendered in the last step
MoreRendered ==
    component = "DesktopDropdown" /\ lastEvent.kind = "renderDropdownContent"

\* the links of the "more" dataset that belong to group g, in input order
LinksOfGroup(g) ==
    SelectSeq(props.moreDropdownItems, LAMBDA item : item.group = g)

\* C24: the "more" panel renders one group for every group index of its
\* dataset, holding the items of that index in input order, so that every item
\* is in exactly one rendered group; the groups come in ascending numeric order
\* of their index; the shipped dataset of 8 items (4 in group 0, 4 in group 1)
\* gives exactly two groups of 4; a panel of fewer than 2 groups is padded to
\* 2 columns.
C24_MoreGroups ==
    MoreRendered =>
        LET items == props.moreDropdownItems
            groups == returned.groups
        IN /\ {groups[k].group : k \in DOMAIN groups} =
                  {items[j].group : j \in DOMAIN items}
           /\ \A k, l \in DOMAIN groups : k < l => groups[k].group < groups[l].group
           /\ \A k \in DOMAIN groups : groups[k].items = LinksOfGroup(groups[k].group)
           /\ items = RepoMoreItems =>
                  Len(groups) = 2 /\ \A k \in DOMAIN groups : Len(groups[k].items) = 4
           /\ ~returned.noItems => Len(groups) + returned.placeholders >= 2

NextStepCall == [op |-> "nextStep", step |-> 0]
PrevStepCall == [op |-> "prevStep", step |-> 0]

\* the step and the history are those the hook promises
StepInRange ==
    /\ currentStep \in 1..totalSteps
    /\ stepHistory # << >>
    /\ stepHistory[Len(stepHistory)] = currentStep

\* this step is a handler whose one call cannot move: nextStep at the last
\* step, or goToStep with a step out of range
RefusedCall ==
    /\ Len(calls') = 1
    /\ \/ calls'[1].op = "nextStep" /\ currentStep = totalSteps
       \/ calls'[1].op = "goToStep" /\ calls'[1].step \notin 1..totalSteps

\* this step ends a nextStep that moved followed by a prevStep, made by one
\* handler or by two handlers one after the other; from is the state before
\* the nextStep
NextThenPrev(from) ==
    \/ /\ calls' = << NextStepCall, PrevStepCall >>
       /\ returned'[1] = TRUE
       /\ from = StepRender
    \/ /\ calls = << NextStepCall >> /\ returned[1] = TRUE
       /\ calls' = << PrevStepCall >>
       /\ from = stepBefore

\* C29: whatever calls of nextStep, prevStep, goToStep and resetSteps were
\* made, currentStep is within 1..totalSteps and is the last element of the
\* non-empty stepHistory; nextStep at the last step and goToStep out of range
\* return false, change neither currentStep nor stepHistory and do not call
\* onStepChange; nextStep followed by prevStep leaves currentStep and
\* stepHistory as they were before the nextStep.
C29_StepNavigation ==
    [][component = "useStepNavigation" =>
         /\ StepInRange'
         /\ RefusedCall =>
                /\ returned'[1] = FALSE
                /\ currentStep' = currentStep /\ stepHistory' = stepHistory
                /\ onStepChange' = << >>
         /\ \A from \in {StepRender, stepBefore} :
                NextThenPrev(from) =>
                    /\ currentStep' = from.currentStep
                    /\ stepHistory' = from.stepHistory]_vars

\* C30: useApiData never shows data and an error together, is not loading only
\* when no fetch is awaited, and once every fetch has settled shows the data
\* or the error of the fetch started last.
C30_ApiData ==
    component = "useApiData" =>
        /\ ~(data # 0 /\ error # 0)
        /\ ~loading => fetches = {}
        /\ fetches = {} => retryCount + 1 \in {data, error}

====
